---------------------------- MODULE Spec2Model ----------------------------
(***************************************************************************)
(* rosekv write-ahead log: the chunked Segment file format                 *)
(* (include/rosekv/wal/segment.hh) and the WAL segment roster (wal.hh,     *)
(* wal.cc).                                                                *)
(*                                                                         *)
(* Bytes are symbolic.  A record is a Slice [rid, from, n]: the n bytes    *)
(* from..from+n-1 of the record with identity rid, so two byte strings are *)
(* equal exactly when their coalesced slice lists are equal.  A file is    *)
(* the sequence of extents written to it, each with its file position:     *)
(* a 7-byte chunk header, a run of payload bytes, or block-tail padding.   *)
(***************************************************************************)
EXTENDS Integers, Sequences, FiniteSets, TLC

(***************************************************************************)
(* Program constants.                                                      *)
(***************************************************************************)
kFull == 0
kFirst == 1
kMiddle == 2
kLast == 3

kChunkHeaderSize == 7
kMaxBlockSize == 32768
kMaxPayLoad == kMaxBlockSize - kChunkHeaderSize

\* Width of ChunkHeader::len (uint16_t) and ChunkHeader::type (uint8_t).
Uint16Mod == 65536
Uint8Mod == 256

(***************************************************************************)
(* Bounds of the model.                                                    *)
(***************************************************************************)
\* Appends made on one Segment object.
MaxAppends == 3
\* Failing or short file writes injected on one Segment object.
MaxFaults == 1
\* WAL::Write calls made on one WAL object.
MaxWrites == 2
\* Threads that call WAL::Write concurrently, one call each.
MaxThreads == 2
\* Close calls made on one Segment object.
MaxCloses == 2

\* Record lengths appended to a segment.  From offset 0: 32754 leaves a
\* 7-byte tail that is padded, 32761 fills the block exactly, 32762 needs
\* FIRST+LAST, 98304 needs FIRST+MIDDLE+MIDDLE+LAST.  After a 12-byte
\* chunk: 32749 fills the block exactly, 32754 is split at the boundary.
Lens == {0, 5, 32749, 32754, 32761, 32762, 98304}

(***************************************************************************)
(* Slices (kiwi::span<const char>) over symbolic record bytes.             *)
(***************************************************************************)
Slice(rid, n) == [rid |-> rid, from |-> 0, n |-> n]

\* span::split_at(k): the first k bytes and the rest.
split_at(s, k) ==
    << [rid |-> s.rid, from |-> s.from, n |-> k],
       [rid |-> s.rid, from |-> s.from + k, n |-> s.n - k] >>

\* std::string::append of a payload to the bytes collected so far: the
\* byte string as a list of maximal runs.
StrAppend(str, s) ==
    IF s.n = 0 THEN str
    ELSE IF Len(str) > 0
            /\ str[Len(str)].rid = s.rid
            /\ str[Len(str)].from + str[Len(str)].n = s.from
         THEN [str EXCEPT ![Len(str)].n = @ + s.n]
         ELSE Append(str, s)

\* The byte string holding exactly the bytes of slice s.
StrOf(s) == StrAppend(<< >>, s)

(***************************************************************************)
(* Files.                                                                  *)
(***************************************************************************)
ExtSize(e) ==
    CASE e.k = "hdr" -> kChunkHeaderSize
      [] e.k = "data" -> e.n
      [] e.k = "pad" -> e.n

RECURSIVE ChainLen(_)
\* IOBuf::ComputeChainDataLength
ChainLen(buf) ==
    IF buf = << >> THEN 0 ELSE ExtSize(Head(buf)) + ChainLen(Tail(buf))

FileSize(file) ==
    IF file = << >> THEN 0
    ELSE file[Len(file)].pos + ExtSize(file[Len(file)])

RECURSIVE Place(_, _)
\* The extents of buf laid out from file position p.
Place(buf, p) ==
    IF buf = << >> THEN << >>
    ELSE << [Head(buf) EXCEPT !.pos = p] >>
         \o Place(Tail(buf), p + ExtSize(Head(buf)))

\* File::WriteIOBufAtCurrentPos on a file opened with kFlagAppend: the
\* first k extents of the chain land at the end of the file.
WriteAtEnd(file, buf, k) == file \o Place(SubSeq(buf, 1, k), FileSize(file))


(***************************************************************************)
(* Segment: chunk encoding.                                                *)
(***************************************************************************)
\* kiwi::LittleEndian::PutUint16 followed by LittleEndian::Uint16.
PutUint16(n) == n % Uint16Mod

\* The type byte stored at kTypeOffset.
PutUint8(t) == t % Uint8Mod

\* kiwi::Crc32(crc, bytes): the checksum as a symbolic term of its seed and
\* of the bytes it covers.
Crc32(crc, bytes) == [seed |-> crc, over |-> bytes]

\* size_t compared with int64_t: the signed side is converted to unsigned,
\* so a negative value compares as a huge one.
SizeLE(n, x) == IF x < 0 THEN TRUE ELSE n <= x
SizeGT(n, x) == IF x < 0 THEN FALSE ELSE n > x

AvailableSpaceInCurrentBlock(offset) == kMaxBlockSize - (offset % kMaxBlockSize)

\* The padding rule with < for <=: a 7-byte block tail is left unpadded.
PaddingNeededStrict(sz) == sz < kChunkHeaderSize

\* Encode's padding rule: the block tail is padded when sz <= header size.
PaddingNeeded(sz) == sz <= kChunkHeaderSize

\* Header and payload of one chunk; rec is the identity of the record the
\* chunk belongs to (history, not stored in the file).
EncodeDataToChunk(data, type) ==
    LET len == PutUint16(data.n)
        ty == PutUint8(type)
        crc == Crc32(Crc32(0, << len, ty >>), StrOf(data))
        hdr == [k |-> "hdr", pos |-> 0, crc32 |-> crc, len |-> len,
                type |-> ty, rec |-> data.rid]
    IN  IF data.n = 0 THEN << hdr >>
        ELSE << hdr, [k |-> "data", pos |-> 0, rid |-> data.rid,
                      from |-> data.from, n |-> data.n] >>

\* The state Append builds its chunk chain in: the write position offset_,
\* the IOBuf chain so far, and whether every DCHECK_LE of Encode held.
Chain(offset) == [offset_ |-> offset, buf |-> << >>, pre |-> TRUE]

\* Encode, first half: the DCHECK_LE, the chunk joins the chain, offset_
\* advances by the chunk's length.
PutChunk(c, data, chunk) ==
    [offset_ |-> c.offset_ + ChainLen(chunk),
     buf |-> c.buf \o chunk,
     pre |-> c.pre /\ data.n + kChunkHeaderSize
                         <= AvailableSpaceInCurrentBlock(c.offset_)]

\* Encode, second half: sz bytes are left in the block; pad them if needed.
PadTail(c, sz) ==
    IF PaddingNeeded(sz)
    THEN [c EXCEPT !.buf = @ \o << [k |-> "pad", pos |-> 0, n |-> sz] >>,
                   !.offset_ = @ + sz]
    ELSE c

PadBlock(c) == PadTail(c, AvailableSpaceInCurrentBlock(c.offset_))

\* Segment::Encode of one chunk at the chain's write position.
Encode(c, data, type) == PadBlock(PutChunk(c, data, EncodeDataToChunk(data, type)))

RECURSIVE MiddleChunks(_, _)
\* The while loop of Append: MIDDLE chunks while the rest does not fit.
MiddleChunks(c, subspan) ==
    IF SizeGT(subspan.n,
              AvailableSpaceInCurrentBlock(c.offset_) - kChunkHeaderSize)
    THEN MiddleChunks(
            Encode(c, split_at(subspan,
                               AvailableSpaceInCurrentBlock(c.offset_)
                                 - kChunkHeaderSize)[1], kMiddle),
            split_at(subspan,
                     AvailableSpaceInCurrentBlock(c.offset_)
                       - kChunkHeaderSize)[2])
    ELSE [c |-> c, subspan |-> subspan]

\* The last chunk of a split record, typed kFull.
LastChunkAsFull(m) == Encode(m.c, m.subspan, kFull)

\* The last chunk of a split record.
LastChunk(m) == Encode(m.c, m.subspan, kLast)

\* The else branch of Append: FIRST, MIDDLE..., LAST.
SplitRecord(c, sp) == LastChunk(MiddleChunks(Encode(c, sp[1], kFirst), sp[2]))

\* The chunk chain Append builds for data at write position offset.
EncodeRecord(offset, data) ==
    IF SizeLE(data.n, AvailableSpaceInCurrentBlock(offset) - kChunkHeaderSize)
    THEN Encode(Chain(offset), data, kFull)
    ELSE SplitRecord(Chain(offset),
                     split_at(data, AvailableSpaceInCurrentBlock(offset)
                                      - kChunkHeaderSize))

\* Outcomes of the single file write of a chain: "ok" writes all of it,
\* "fail" writes nothing and returns -1, "short" writes its first extent.
WriteFaults == {"fail", "short"}

\* Number of extents of buf that reach the file.
Written(buf, w) ==
    CASE w = "ok" -> Len(buf)
      [] w = "fail" -> 0
      [] w = "short" -> IF Len(buf) > 1 THEN 1 ELSE 0

\* The write of Append and its result; e is the chain Encode built, which
\* has advanced offset_ already.  ret is saved_offset.
WriteChain(seg, e, w) ==
    [seg |-> [seg EXCEPT !.file = WriteAtEnd(seg.file, e.buf, Written(e.buf, w)),
                         !.offset_ = e.offset_],
     ret |-> seg.offset_,
     pre |-> e.pre,
     nbytes |-> IF w = "fail" THEN -1
                ELSE ChainLen(SubSeq(e.buf, 1, Written(e.buf, w))),
     chain |-> ChainLen(e.buf)]

\* Segment::Append with write outcome w.
SegmentAppend(seg, data, w) == WriteChain(seg, EncodeRecord(seg.offset_, data), w)

\* Segment::Segment over a file with the given content: offset_ keeps its
\* default member initializer.
SegmentCtor(file) ==
    [file |-> file, offset_ |-> 0, is_closed_ |-> FALSE, synced |-> 0]

(***************************************************************************)
(* Segment: reading.                                                       *)
(***************************************************************************)
GetAlignedReadOffset(offset) ==
    LET remain == kMaxBlockSize - (offset % kMaxBlockSize)
    IN  IF remain <= kChunkHeaderSize THEN offset + remain ELSE offset

\* Decode, for the header that extent i of the file holds: the payload read.
DecodeHeader(file, offset, i) ==
    IF offset + kChunkHeaderSize + file[i].len > FileSize(file)
    THEN [status |-> "abort"]
    ELSE IF file[i].len = 0
    THEN [status |-> "ok", type |-> file[i].type, crc32 |-> file[i].crc32,
          data |-> [rid |-> file[i].rec, from |-> 0, n |-> 0]]
    ELSE IF file[i + 1].k = "data" /\ file[i + 1].n >= file[i].len
    THEN [status |-> "ok", type |-> file[i].type, crc32 |-> file[i].crc32,
          data |-> [rid |-> file[i + 1].rid, from |-> file[i + 1].from,
                    n |-> file[i].len]]
    ELSE [status |-> "garbage"]

\* Index of the header extent at file position offset (0: none).
HeaderAt(file, offset) ==
    IF \E i \in 1..Len(file) : file[i].pos = offset /\ file[i].k = "hdr"
    THEN CHOOSE i \in 1..Len(file) : file[i].pos = offset /\ file[i].k = "hdr"
    ELSE 0

\* Segment::Decode.  "abort": a CHECK_EQ on the byte count of a read failed.
\* "garbage": the bytes at offset are not a header written by Encode.
Decode(file, offset) ==
    IF offset < 0 \/ offset + kChunkHeaderSize > FileSize(file)
    THEN [status |-> "abort"]
    ELSE IF HeaderAt(file, offset) = 0 THEN [status |-> "garbage"]
    ELSE DecodeHeader(file, offset, HeaderAt(file, offset))

RECURSIVE ReadLoop(_, _, _)

\* One iteration of ReadAt's loop that breaks after every chunk, whatever
\* its type.
ReadChunkOnce(file, o, str, chunk) ==
    IF chunk.status # "ok" THEN [status |-> chunk.status, data |-> << >>]
    ELSE [status |-> "ok", data |-> StrAppend(str, chunk.data)]

\* One iteration of ReadAt's loop, for the chunk decoded at offset o.
ReadChunk(file, o, str, chunk) ==
    IF chunk.status # "ok" THEN [status |-> chunk.status, data |-> << >>]
    ELSE IF chunk.type = kLast \/ chunk.type = kFull
    THEN [status |-> "ok", data |-> StrAppend(str, chunk.data)]
    ELSE ReadLoop(file, o + kChunkHeaderSize + chunk.data.n,
                  StrAppend(str, chunk.data))

\* The while (true) loop of ReadAt.
ReadLoop(file, offset, str) ==
    ReadChunk(file, GetAlignedReadOffset(offset), str,
              Decode(file, GetAlignedReadOffset(offset)))

\* Segment::ReadAt
ReadAt(seg, offset) == ReadLoop(seg.file, offset, << >>)

(***************************************************************************)
(* Segment: required space, sync.                                          *)
(***************************************************************************)
\* Segment::ComputeRequiredSpace for a record of n bytes.
ComputeRequiredSpace(n) ==
    LET nblocks == n \div kMaxPayLoad
        remain == n % kMaxPayLoad
    IN  nblocks * kMaxBlockSize + remain
          + (IF remain = 0 THEN 0 ELSE kChunkHeaderSize)

\* Segment::Sync: File::Flush makes everything written so far durable.
SegmentSync(s) == [s EXCEPT !.synced = FileSize(s.file)]

\* A Close that flips is_closed_.
SegmentCloseToggle(s) == [s EXCEPT !.is_closed_ = ~@]

\* Segment::Close: Sync(), file_.Close(), is_closed_ = true.  On a closed
\* handle the flush fails and file_.Close() does nothing.
SegmentClose(s) ==
    [(IF s.is_closed_ THEN s ELSE SegmentSync(s)) EXCEPT !.is_closed_ = TRUE]

\* The Segment as its closed file handle shows it: no byte can be read.
ClosedHandle(s) == [s EXCEPT !.file = << >>]

(***************************************************************************)
(* WAL: basenames and the roster std::map<std::string, Segment>.           *)
(***************************************************************************)
\* Characters are their ASCII codes.
chDigit0 == 48
chMinus == 45
\* kDefSegFileExtension, ".seg"
kDefSegFileExtension == << 46, 115, 101, 103 >>

RECURSIVE Digits(_)
Digits(n) ==
    IF n < 10 THEN << chDigit0 + n >>
    ELSE Digits(n \div 10) \o << chDigit0 + (n % 10) >>

\* std::to_string(int)
to_string(n) == IF n < 0 THEN << chMinus >> \o Digits(0 - n) ELSE Digits(n)

BaseName(id) == to_string(id) \o kDefSegFileExtension

RECURSIVE StringLess(_, _)
\* std::less<std::string>: lexicographic order of the characters.
StringLess(a, b) ==
    IF b = << >> THEN FALSE
    ELSE IF a = << >> THEN TRUE
    ELSE IF Head(a) # Head(b) THEN Head(a) < Head(b)
    ELSE StringLess(Tail(a), Tail(b))

\* The segment id a basename <id>.seg stands for: its decimal prefix.
RECURSIVE NumericPrefix(_, _)
NumericPrefix(name, acc) ==
    IF name = << >> \/ Head(name) < chDigit0 \/ Head(name) > chDigit0 + 9
    THEN acc
    ELSE NumericPrefix(Tail(name), 10 * acc + (Head(name) - chDigit0))

IdOf(name) ==
    IF name # << >> /\ Head(name) = chMinus
    THEN 0 - NumericPrefix(Tail(name), 0)
    ELSE NumericPrefix(name, 0)

\* The key order of segments_.
KeyLess(a, b) == StringLess(a, b)

\* segments_.rbegin(): the greatest key of a non-empty roster.
LastKey(roster) ==
    CHOOSE k \in DOMAIN roster :
       \A o \in DOMAIN roster : o = k \/ KeyLess(o, k)

\* std::map::emplace: no effect when the key is present.
Emplace(roster, key, value) ==
    IF key \in DOMAIN roster THEN roster
    ELSE [b \in DOMAIN roster \cup {key} |->
             IF b = key THEN value ELSE roster[b]]

\* WAL::NewSegment: the roster after it, the incremented id, and the key of
\* the segment it returns, GetActiveSegment().
NewSegment(roster, next_id) ==
    LET basename == BaseName(next_id + 1)
        r == Emplace(roster, basename, SegmentCtor(<< >>))
    IN  [roster |-> r, next_id |-> next_id + 1, key |-> LastKey(r)]

\* WAL::UpdateIOStat
UpdateIOStat(st, nbytes) ==
    [st EXCEPT !.total_bytes_written = @ + nbytes,
               !.total_write_op_count = @ + 1,
               !.cur_bytes_written = @ + nbytes,
               !.cur_write_op_count = @ + 1]

\* WAL::NeedSync
NeedSync(opt, st) ==
    \/ opt.sync_per_write
    \/ /\ opt.sync_bytes_threshold # 0
       /\ st.cur_write_op_count >= opt.sync_bytes_threshold

\* The size check of WAL::Write: size_t against int64_t.
TooLarge(opt, n) == SizeGT(n, opt.max_segment_sz - kChunkHeaderSize)

\* The rollover test of WAL::Write: int64_t against int64_t - size_t, an
\* unsigned comparison.
NeedsNewSegment(opt, n, size) ==
    SizeGT(ComputeRequiredSpace(n), opt.max_segment_sz - size)

(***************************************************************************)
(* State.                                                                  *)
(***************************************************************************)
VARIABLES
    seg,          \* the Segment under test: [file, offset_, is_closed_,
                  \* synced]; synced is the length of the file's durable prefix
    dcheck_on,    \* the build: TRUE when DCHECKs are compiled in
    aborted,      \* the process was terminated (failed check, crash)
    init_size,    \* history: size of the file the Segment was opened on
    appended,     \* history: [off, rid, n] of every Append that returned
    enc_pre,      \* history: every Encode call met its precondition
    faults,       \* history: number of injected write faults
    last_append,  \* history: the last Append call
    last_read,    \* history: the last ReadAt call
    closes,       \* history: number of Close calls
    options_,     \* WAL::options_
    segments_,    \* WAL::segments_: basename -> Segment
    io_stats_,    \* WAL::io_stats_
    next_segment_id_, \* WAL::next_segment_id_
    opened,       \* history: the basenames the constructor loaded
    writes,       \* history: number of WAL::Write calls
    all_fit,      \* history: every Write so far had size + header <= max
    last_write,   \* history: the last WAL::Write call
    accepted,     \* history: lengths of the records of the Writes that
                  \* returned without an error
    last_sync,    \* history: the WAL::Sync call that has just returned
    sync_thread,  \* the thread running WAL::StartSyncThread: "none" (no
                  \* such thread), "wait" (in wait_for) or "exited"
    stop_sync_thread_, \* WAL::stop_sync_thread_
    last_wake,    \* history: the last iteration of StartSyncThread's loop
    wal_rw_mtx_,  \* WAL::wal_rw_mtx_: the threads that hold it exclusively
    thr,          \* caller threads inside WAL::Write: position and locals
    order,        \* history: threads in the order they took wal_rw_mtx_
    start         \* history: roster, next id and io stats at construction

segVars == << seg, init_size, appended, enc_pre, faults, last_append,
              last_read, closes >>

walVars == << options_, segments_, io_stats_, next_segment_id_, opened,
              writes, all_fit, last_write, accepted, last_sync, start >>

bgVars == << sync_thread, stop_sync_thread_, last_wake >>

mtVars == << wal_rw_mtx_, thr, order >>

vars == << segVars, walVars, bgVars, mtVars, dcheck_on, aborted >>

NoCall == [call |-> "none"]

\* A segment file left by an earlier process: one record of n bytes
\* (record identity 0) appended to an empty file.
PriorFile(n) == SegmentAppend(SegmentCtor(<< >>), Slice(0, n), "ok").seg.file

\* The files a Segment is constructed on: a new file, or an existing one.
InitFiles == {<< >>, PriorFile(5)}

\* No WAL object exists.
NoWAL ==
    /\ options_ = [max_segment_sz |-> 0, sync_bytes_threshold |-> 0,
                   sync_per_write |-> FALSE, sync_interval_ms |-> 0]
    /\ segments_ = << >>
    /\ io_stats_ = [total_bytes_written |-> 0, total_write_op_count |-> 0,
                    cur_bytes_written |-> 0, cur_write_op_count |-> 0,
                    sync_op_count |-> 0]
    /\ next_segment_id_ = 0
    /\ opened = {}
    /\ writes = 0
    /\ all_fit = TRUE
    /\ last_write = NoCall
    /\ accepted = << >>
    /\ last_sync = NoCall
    /\ start = NoCall

\* No thread runs WAL::StartSyncThread.
NoSyncThread ==
    /\ sync_thread = "none"
    /\ stop_sync_thread_ = FALSE
    /\ last_wake = NoCall

\* No thread is inside WAL::Write.
NoCallers ==
    /\ wal_rw_mtx_ = {}
    /\ thr = << >>
    /\ order = << >>

Init ==
    /\ seg \in {SegmentCtor(f) : f \in InitFiles}
    /\ init_size = FileSize(seg.file)
    /\ dcheck_on \in BOOLEAN
    /\ aborted = FALSE
    /\ appended = << >>
    /\ enc_pre = TRUE
    /\ faults = 0
    /\ last_append = NoCall
    /\ last_read = NoCall
    /\ closes = 0
    /\ NoWAL
    /\ NoSyncThread
    /\ NoCallers

\* The end of one call of Segment::Append(data), r being what
\* SegmentAppend computed for it.
AppendReturns(data, r) ==
    /\ enc_pre' = (enc_pre /\ r.pre)
    /\ last_append' = [call |-> "Append", before |-> seg.offset_,
                       ret |-> r.ret, nbytes |-> r.nbytes, chain |-> r.chain]
    /\ IF dcheck_on /\ ~r.pre
       THEN \* DCHECK_LE in Encode
            /\ aborted' = TRUE
            /\ UNCHANGED << seg, appended >>
       ELSE IF dcheck_on /\ r.nbytes # r.chain
       THEN \* DCHECK_EQ after the write
            /\ aborted' = TRUE
            /\ seg' = r.seg
            /\ UNCHANGED appended
       ELSE /\ seg' = r.seg
            /\ appended' = Append(appended,
                                  [off |-> r.ret, rid |-> data.rid, n |-> data.n])
            /\ UNCHANGED aborted
    /\ UNCHANGED << dcheck_on, init_size, last_read, closes, walVars, bgVars,
                    mtVars >>

\* One call of Segment::Append(data) whose file write has outcome w.
DoAppend(data, w) == AppendReturns(data, SegmentAppend(seg, data, w))

NextRid == Len(appended) + 1

\* Append of a record; the file system writes the whole chain.
SegAppend ==
    /\ ~aborted
    /\ ~seg.is_closed_
    /\ Len(appended) < MaxAppends
    /\ \E n \in Lens : DoAppend(Slice(NextRid, n), "ok")
    /\ UNCHANGED faults

\* Append of a record; the file write fails or is short.
SegAppendFault ==
    /\ ~aborted
    /\ ~seg.is_closed_
    /\ Len(appended) < MaxAppends
    /\ faults < MaxFaults
    /\ \E n \in Lens : \E w \in WriteFaults : DoAppend(Slice(NextRid, n), w)
    /\ faults' = faults + 1

\* The end of ReadAt(appended[i].off), r being what ReadAt computed.
ReadReturns(i, r) ==
    /\ last_read' = [call |-> "ReadAt", idx |-> i, off |-> appended[i].off,
                     status |-> r.status, data |-> r.data]
    /\ aborted' = (r.status = "abort")

\* ReadAt of an offset that an earlier Append returned.
SegReadAt ==
    /\ ~aborted
    /\ ~seg.is_closed_
    /\ \E i \in 1..Len(appended) : ReadReturns(i, ReadAt(seg, appended[i].off))
    /\ UNCHANGED << seg, dcheck_on, init_size, appended, enc_pre, faults,
                    last_append, closes, walVars, bgVars, mtVars >>

\* Segment operations over a file system that completes every write.
Next == SegAppend \/ SegReadAt

Spec == Init /\ [][Next]_vars

\* Segment operations over a file system whose writes may fail.
NextIO == SegAppend \/ SegAppendFault \/ SegReadAt

SpecIO == Init /\ [][NextIO]_vars

(***************************************************************************)
(* Segment: any read offset, Close, calls on a closed Segment.             *)
(***************************************************************************)
\* Record lengths appended: a small record and one of three blocks.
LifeLens == {5, 98304}

\* Append of a record of LifeLens.
LifeAppend ==
    /\ ~aborted
    /\ ~seg.is_closed_
    /\ Len(appended) < MaxAppends
    /\ \E n \in LifeLens : DoAppend(Slice(NextRid, n), "ok")
    /\ UNCHANGED faults

\* Offsets handed to ReadAt by a caller: inside the first chunk header, at
\* the start of the second block, at the end of the file and past it.
AnyOffsets(file) == {3, kMaxBlockSize, FileSize(file), FileSize(file) + 100}

\* The end of ReadAt(off), r being what ReadAt computed.
OffsetReadReturns(off, r) ==
    /\ last_read' = [call |-> "ReadAtOffset", off |-> off,
                     status |-> r.status, data |-> r.data]
    /\ aborted' = (r.status = "abort")

\* ReadAt of an offset of the caller's choice.
SegReadAtOffset ==
    /\ ~aborted
    /\ ~seg.is_closed_
    /\ \E off \in AnyOffsets(seg.file) : OffsetReadReturns(off, ReadAt(seg, off))
    /\ UNCHANGED << seg, dcheck_on, init_size, appended, enc_pre, faults,
                    last_append, closes, walVars, bgVars, mtVars >>

\* Segment::Close
SegClose ==
    /\ ~aborted
    /\ closes < MaxCloses
    /\ seg' = SegmentClose(seg)
    /\ closes' = closes + 1
    /\ UNCHANGED << dcheck_on, aborted, init_size, appended, enc_pre, faults,
                    last_append, last_read, walVars, bgVars, mtVars >>

\* The end of Append(data) on a closed Segment, r being what SegmentAppend
\* computed for a write that fails.  DCHECK(!IsClosed() && IsValid()) ends
\* a debug build; a release build runs the body.
ClosedAppendReturns(r) ==
    IF dcheck_on
    THEN /\ aborted' = TRUE
         /\ last_append' = [call |-> "AppendClosed", before |-> seg.offset_,
                            after |-> seg.offset_, ec |-> "abort"]
         /\ UNCHANGED seg
    ELSE /\ seg' = r.seg
         /\ last_append' = [call |-> "AppendClosed", before |-> seg.offset_,
                            after |-> r.seg.offset_, ec |-> "none"]
         /\ UNCHANGED aborted

\* Append on a closed Segment: the write to the closed handle fails.
SegAppendClosed ==
    /\ ~aborted
    /\ seg.is_closed_
    /\ faults < MaxFaults
    /\ \E n \in LifeLens :
          ClosedAppendReturns(SegmentAppend(seg, Slice(NextRid, n), "fail"))
    /\ faults' = faults + 1
    /\ UNCHANGED << dcheck_on, init_size, appended, enc_pre, last_read,
                    closes, walVars, bgVars, mtVars >>

\* The end of ReadAt(off) on a closed Segment, r being what ReadAt computed
\* over the closed handle.
ClosedReadReturns(off, r) ==
    /\ last_read' = [call |-> "ReadAtClosed", off |-> off,
                     status |-> IF dcheck_on THEN "abort" ELSE r.status,
                     data |-> r.data]
    /\ aborted' = (dcheck_on \/ r.status = "abort")

\* ReadAt on a closed Segment, of an offset that an Append returned.
SegReadClosed ==
    /\ ~aborted
    /\ seg.is_closed_
    /\ \E i \in 1..Len(appended) :
          ClosedReadReturns(appended[i].off,
                            ReadAt(ClosedHandle(seg), appended[i].off))
    /\ UNCHANGED << seg, dcheck_on, init_size, appended, enc_pre, faults,
                    last_append, closes, walVars, bgVars, mtVars >>

NextLife ==
    \/ LifeAppend
    \/ SegReadAt
    \/ SegReadAtOffset
    \/ SegClose
    \/ SegAppendClosed
    \/ SegReadClosed

SpecLife == Init /\ [][NextLife]_vars

(***************************************************************************)
(* Claims about the Segment.                                               *)
(***************************************************************************)
Fresh == init_size = 0

\* The chunk headers of the file, in file order.
HdrIdx(file) == {i \in 1..Len(file) : file[i].k = "hdr"}

\* Payload bytes that follow header i in the file.
PayloadAt(file, i) ==
    IF i < Len(file) /\ file[i + 1].k = "data" THEN file[i + 1].n ELSE 0

\* C1: on a fresh segment, ReadAt of every offset an Append returned yields,
\* in every later state, exactly the bytes of the record of that Append; the
\* last ReadAt call made returned those bytes.
C1_RoundTrip ==
    Fresh =>
      /\ \A i \in 1..Len(appended) :
            ReadAt(seg, appended[i].off)
              = [status |-> "ok",
                 data |-> StrOf(Slice(appended[i].rid, appended[i].n))]
      /\ last_read.call = "ReadAt" =>
            /\ last_read.status = "ok"
            /\ last_read.data
                 = StrOf(Slice(appended[last_read.idx].rid,
                               appended[last_read.idx].n))

\* A multi-block record, then the empty record, then a third record have
\* been appended to a fresh segment and the first one was read back last.
C1_Witness ==
    /\ Fresh
    /\ Len(appended) >= 3
    /\ appended[1].n > 2 * kMaxBlockSize
    /\ appended[2].n = 0
    /\ last_read.call = "ReadAt"
    /\ last_read.idx = 1
    /\ last_read.status = "ok"

\* C2: on a fresh segment every chunk (header and payload) lies inside one
\* block, no header starts where 7 bytes or fewer remain in the block, and
\* every Encode call made by Append met its precondition.
C2_ChunkInBlock ==
    Fresh =>
      /\ enc_pre
      /\ \A i \in HdrIdx(seg.file) :
            LET p == seg.file[i].pos
                last == p + kChunkHeaderSize + PayloadAt(seg.file, i) - 1
            IN  /\ p \div kMaxBlockSize = last \div kMaxBlockSize
                /\ kMaxBlockSize - (p % kMaxBlockSize) > kChunkHeaderSize

\* A fresh segment holds a padded block tail and a chunk after it.
C2_Witness ==
    /\ Fresh
    /\ \E i \in 1..Len(seg.file) :
          /\ seg.file[i].k = "pad"
          /\ i < Len(seg.file)
          /\ seg.file[i + 1].k = "hdr"

\* The chunk types of record rid in file order.
RECURSIVE TypesOf(_, _)
TypesOf(file, rid) ==
    IF file = << >> THEN << >>
    ELSE IF Head(file).k = "hdr" /\ Head(file).rec = rid
         THEN << Head(file).type >> \o TypesOf(Tail(file), rid)
         ELSE TypesOf(Tail(file), rid)

WellFormedChain(ts) ==
    \/ ts = << kFull >>
    \/ /\ Len(ts) >= 2
       /\ ts[1] = kFirst
       /\ ts[Len(ts)] = kLast
       /\ \A j \in 2..(Len(ts) - 1) : ts[j] = kMiddle

\* The record an extent belongs to; padding belongs to none.
OwnerOf(e) ==
    CASE e.k = "hdr" -> e.rec
      [] e.k = "data" -> e.rid
      [] e.k = "pad" -> -1

\* C3: the chunk types of every appended record are, in file order, [FULL]
\* or [FIRST, MIDDLE*, LAST], and between the first and the last extent of a
\* record the file holds only that record's chunks and padding.
C3_ChunkChain ==
    \A i \in 1..Len(appended) :
       LET rid == appended[i].rid
           own == {j \in 1..Len(seg.file) : OwnerOf(seg.file[j]) = rid}
       IN  /\ WellFormedChain(TypesOf(seg.file, rid))
           /\ \A a, b \in own : \A j \in a..b :
                 OwnerOf(seg.file[j]) \in {rid, -1}

\* Some record was written as FIRST, MIDDLE, ..., LAST and another record
\* was appended after it.
C3_Witness ==
    \E i \in 1..Len(appended) :
       /\ Len(TypesOf(seg.file, appended[i].rid)) >= 3
       /\ i < Len(appended)

\* File position of the first chunk header of record rid (-1: none).
FirstHeaderPos(file, rid) ==
    LET own == {j \in HdrIdx(file) : file[j].rec = rid}
    IN  IF own = {} THEN -1
        ELSE file[CHOOSE j \in own : \A l \in own : j <= l].pos

\* C4: Append returns the file offset of the first byte of the record's first
\* chunk header; the offset is the segment size before the call, is left
\* unchanged by GetAlignedReadOffset, and successive offsets increase.
C4_ReturnedOffset ==
    /\ \A i \in 1..Len(appended) :
          /\ appended[i].off = FirstHeaderPos(seg.file, appended[i].rid)
          /\ GetAlignedReadOffset(appended[i].off) = appended[i].off
    /\ \A i, j \in 1..Len(appended) : i < j => appended[i].off < appended[j].off
    /\ (last_append.call = "Append" /\ ~aborted) =>
          last_append.ret = last_append.before

\* C5: next_write_offset equals the size of the underlying file.
C5_OffsetIsFileSize == seg.offset_ = FileSize(seg.file)

\* C6: after an Append whose file write failed or was short, Size() equals
\* its value before the call.
C6_NoPartialCommit ==
    (/\ last_append.call = "Append"
     /\ last_append.nbytes # last_append.chain
     /\ ~aborted)
      => seg.offset_ = last_append.before

\* avail(pos): the payload bytes that fit in the block of file position pos
\* after a chunk header.
Avail(pos) == kMaxBlockSize - (pos % kMaxBlockSize) - kChunkHeaderSize

\* The chunks after a kFirst chunk for n remaining bytes: kMiddle chunks of
\* a full block payload, then one kLast chunk.
RECURSIVE RestChunks(_)
RestChunks(n) ==
    IF n <= kMaxPayLoad THEN << [type |-> kLast, n |-> n] >>
    ELSE << [type |-> kMiddle, n |-> kMaxPayLoad] >>
           \o RestChunks(n - kMaxPayLoad)

\* Types and payload lengths of the chunks of a record of L bytes that
\* starts at file position pos.
ExpectedChunks(pos, L) ==
    IF L <= Avail(pos) THEN << [type |-> kFull, n |-> L] >>
    ELSE << [type |-> kFirst, n |-> Avail(pos)] >> \o RestChunks(L - Avail(pos))

\* Types and payload lengths of the chunks of record rid that the file
\* holds from extent i on.
RECURSIVE ChunksFrom(_, _, _)
ChunksFrom(file, rid, i) ==
    IF i > Len(file) THEN << >>
    ELSE IF file[i].k = "hdr" /\ file[i].rec = rid
    THEN << [type |-> file[i].type, n |-> PayloadAt(file, i)] >>
           \o ChunksFrom(file, rid, i + 1)
    ELSE ChunksFrom(file, rid, i + 1)

\* C21: a record of L bytes whose first chunk header is at file position pos
\* is written as one kFull chunk of L bytes if L <= avail(pos), and otherwise
\* as a kFirst chunk of avail(pos) bytes, kMiddle chunks of 32761 bytes and
\* one kLast chunk of the remaining 1..32761 bytes.
C21_ChunkPayloads ==
    \A i \in 1..Len(appended) :
       ChunksFrom(seg.file, appended[i].rid, 1)
         = ExpectedChunks(FirstHeaderPos(seg.file, appended[i].rid),
                          appended[i].n)

\* C22: ComputeRequiredSpace(L) is the number of bytes by which the segment
\* grows when a record of L bytes is appended at a block-aligned offset.
\* Stated for the last Append, on a segment opened on a new file.
C22_RequiredSpace ==
    (/\ Fresh
     /\ ~aborted
     /\ last_append.call = "Append"
     /\ last_append.before % kMaxBlockSize = 0)
      => /\ ComputeRequiredSpace(appended[Len(appended)].n)
              = seg.offset_ - last_append.before
         /\ ComputeRequiredSpace(appended[Len(appended)].n)
              = last_append.chain

\* Offset off of the file, once aligned, is where a kFull or kFirst chunk
\* begins.
RecordStart(file, off) ==
    /\ off >= 0
    /\ HeaderAt(file, GetAlignedReadOffset(off)) # 0
    /\ file[HeaderAt(file, GetAlignedReadOffset(off))].type \in {kFull, kFirst}

\* C18: ReadAt of an offset that is outside the written range, or that does
\* not begin a kFull or kFirst chunk once aligned, returns Corruption or
\* InvalidOffset and does not end the process.
C18_BadOffsetIsError ==
    (/\ last_read.call = "ReadAtOffset"
     /\ ~RecordStart(seg.file, last_read.off))
      => /\ last_read.status \in {"Corruption", "InvalidOffset"}
         /\ ~aborted

\* C19: Append or ReadAt on a closed Segment fails with Closed and leaves
\* offset_ and the file as they were.
C19_ClosedIsError ==
    /\ last_append.call = "AppendClosed"
          => /\ last_append.ec = "Closed"
             /\ last_append.after = last_append.before
    /\ last_read.call = "ReadAtClosed" => last_read.status = "Closed"

\* C20: is_closed_ is false after construction; no step makes it false
\* again; every Close leaves it true, and a Close of a closed Segment leaves
\* is_closed_ and Size() as they were.
C20_ClosedMonotonic ==
    /\ ~seg.is_closed_
    /\ [][/\ seg.is_closed_ => seg'.is_closed_
          /\ closes' # closes =>
                /\ seg'.is_closed_
                /\ seg.is_closed_ => seg'.offset_ = seg.offset_]_vars

\* A Segment holding a record has been closed twice.
C20_Witness ==
    /\ closes = 2
    /\ seg.is_closed_
    /\ seg.offset_ > 0
    /\ appended # << >>

(***************************************************************************)
(* WAL.                                                                    *)
(***************************************************************************)
\* Record lengths written to the WAL.  65530 is over the limit of a 64 KiB
\* segment; 32749 after a 12-byte chunk and 32761 at offset 0 fill a block.
WalLens == {0, 5, 32749, 32761, 65510, 65530}

\* Options::max_segment_sz values.
MaxSegSizes == {4, 32768, 65536}

\* Sync policies: sync_bytes_threshold and sync_per_write.
SyncPolicies == {<< 0, FALSE >>, << 2, FALSE >>, << 0, TRUE >>}

\* Options with the given sync_interval_ms.
OptionsWith(ms) ==
    {[max_segment_sz |-> m, sync_bytes_threshold |-> sp[1],
      sync_per_write |-> sp[2], sync_interval_ms |-> ms] :
        m \in MaxSegSizes, sp \in SyncPolicies}

\* sync_interval_ms at its default, 0.
OptionsSet == OptionsWith(0)

\* Values of the members the constructor leaves uninitialized.
UninitIds == {0, 9}
UninitStats == {0, 5}

\* The segment files found in wal_dir: basename -> content.
Dir(ids, file) == [b \in {BaseName(i) : i \in ids} |-> file]

InitDirs ==
    {Dir({}, << >>), Dir({1}, << >>), Dir({1}, PriorFile(5)),
     Dir({9}, << >>), Dir({2, 10}, << >>)}

\* GetActiveSegment() on an empty roster dereferences rbegin() == rend():
\* undefined behaviour.  -1: the process crashes at once; otherwise the
\* call yields a pointer to no Segment, whose Size() reads as this value.
WildOutcomes == {-1, 0, 32768}

\* What a Write that does nothing leaves.
Untouched(roster, next_id, io) ==
    [roster |-> roster, next_id |-> next_id, io |-> io, aborted |-> FALSE,
     ec |-> "ok", target |-> << >>, asked |-> FALSE, need_sync |-> FALSE]

\* The tail of WAL::Write: r is the result of Append on segment key of
\* roster, st the io stats after UpdateIOStat; sync if NeedSync().
WriteSync(opt, roster, next_id, io, dcheck, key, r, st) ==
    IF dcheck /\ ~r.pre
    THEN [roster |-> roster, next_id |-> next_id, io |-> io,
          aborted |-> TRUE, ec |-> "ok", target |-> key,
          asked |-> FALSE, need_sync |-> FALSE]
    ELSE [roster |-> [roster EXCEPT ![key] = IF NeedSync(opt, st)
                                             THEN SegmentSync(r.seg)
                                             ELSE r.seg],
          next_id |-> next_id, io |-> st, aborted |-> FALSE, ec |-> "ok",
          target |-> key, asked |-> TRUE, need_sync |-> NeedSync(opt, st)]

\* WAL::Write from seg->Append(data) on: ns is the roster, the next id and
\* the key of the segment seg points to.
WriteAppend(opt, io, dcheck, n, rid, ns) ==
    IF ns.key = << >>
    THEN \* Append through the pointer to no Segment
         [Untouched(ns.roster, ns.next_id, io) EXCEPT !.aborted = TRUE]
    ELSE WriteSync(opt, ns.roster, ns.next_id, io, dcheck, ns.key,
                   SegmentAppend(ns.roster[ns.key], Slice(rid, n), "ok"),
                   UpdateIOStat(io, n))

\* WAL::Write from the rollover test on: key0 is the key of the segment
\* GetActiveSegment() returned (<< >>: a pointer to no Segment) and size0
\* its Size().
WriteActive(opt, roster, next_id, io, dcheck, n, rid, key0, size0) ==
    WriteAppend(opt, io, dcheck, n, rid,
                IF NeedsNewSegment(opt, n, size0)
                THEN NewSegment(roster, next_id)
                ELSE [roster |-> roster, next_id |-> next_id, key |-> key0])

\* WAL::Write(data) for a record of n bytes with identity rid: the state it
\* leaves and what it did.  wild is the outcome of the undefined
\* behaviour, used only when the roster is empty.
Write(opt, roster, next_id, io, dcheck, n, rid, wild) ==
    IF TooLarge(opt, n)
    THEN [Untouched(roster, next_id, io) EXCEPT !.ec = "TooLargeData"]
    ELSE IF DOMAIN roster = {}
    THEN IF wild < 0
         THEN [Untouched(roster, next_id, io) EXCEPT !.aborted = TRUE]
         ELSE WriteActive(opt, roster, next_id, io, dcheck, n, rid, << >>, wild)
    ELSE WriteActive(opt, roster, next_id, io, dcheck, n, rid,
                     LastKey(roster), roster[LastKey(roster)].offset_)

\* State after WAL::WAL(options) with options of opts on a directory of
\* dirs.  The constructor gives no value to next_segment_id_ and io_stats_.
Constructed(opts, dirs) ==
    /\ options_ \in opts
    /\ \E dir \in dirs :
          /\ segments_ = [b \in DOMAIN dir |-> SegmentCtor(dir[b])]
          /\ opened = DOMAIN dir
    /\ next_segment_id_ \in UninitIds
    /\ \E g \in UninitStats :
          io_stats_ = [total_bytes_written |-> g, total_write_op_count |-> g,
                       cur_bytes_written |-> g, cur_write_op_count |-> g,
                       sync_op_count |-> g]
    /\ start = [roster |-> segments_, next_id |-> next_segment_id_,
                io |-> io_stats_]
    /\ writes = 0
    /\ all_fit = TRUE
    /\ last_write = NoCall
    /\ accepted = << >>
    /\ last_sync = NoCall
    /\ dcheck_on \in BOOLEAN
    /\ aborted = FALSE

\* No Segment is under test on its own.
NoSegment ==
    /\ seg = SegmentCtor(<< >>)
    /\ init_size = 0
    /\ appended = << >>
    /\ enc_pre = TRUE
    /\ faults = 0
    /\ last_append = NoCall
    /\ last_read = NoCall
    /\ closes = 0

\* State after WAL::WAL(options) on a directory of InitDirs.
InitWAL ==
    /\ Constructed(OptionsSet, InitDirs)
    /\ NoSegment
    /\ NoSyncThread
    /\ NoCallers

\* Size() of the segment GetActiveSegment() returns (0: empty roster).
ActiveSize(roster) ==
    IF DOMAIN roster = {} THEN 0 ELSE roster[LastKey(roster)].offset_

\* The end of one call of WAL::Write for n bytes, w being what Write
\* computed for it.
WriteReturns(n, w) ==
    /\ segments_' = w.roster
    /\ next_segment_id_' = w.next_id
    /\ io_stats_' = w.io
    /\ aborted' = w.aborted
    /\ all_fit' = (all_fit /\ n + kChunkHeaderSize <= options_.max_segment_sz)
    /\ accepted' = IF w.ec = "ok" /\ ~w.aborted THEN Append(accepted, n)
                   ELSE accepted
    /\ last_sync' = NoCall
    /\ last_write' =
          [call |-> "Write", n |-> n, rid |-> writes + 1,
           ec |-> w.ec, target |-> w.target,
           was_empty |-> DOMAIN segments_ = {},
           over |-> (ActiveSize(segments_) + ComputeRequiredSpace(n)
                       > options_.max_segment_sz),
           created |-> DOMAIN w.roster \ DOMAIN segments_,
           new_name |-> BaseName(next_segment_id_ + 1),
           unchanged |-> /\ w.roster = segments_
                         /\ w.next_id = next_segment_id_
                         /\ w.io = io_stats_,
           asked |-> w.asked, need_sync |-> w.need_sync,
           sync_ops0 |-> io_stats_.sync_op_count]

\* One call of WAL::Write, the whole body under wal_rw_mtx_.
WALWrite ==
    /\ ~aborted
    /\ writes < MaxWrites
    /\ \E n \in WalLens :
       \E wild \in IF DOMAIN segments_ = {} THEN WildOutcomes ELSE {0} :
          WriteReturns(n, Write(options_, segments_, next_segment_id_,
                                io_stats_, dcheck_on, n, writes + 1, wild))
    /\ writes' = writes + 1
    /\ UNCHANGED << options_, opened, start, dcheck_on, segVars, bgVars,
                    mtVars >>

\* WAL::Sync: the body is empty.
Sync(roster, io) == [roster |-> roster, io |-> io]

\* The end of one call of WAL::Sync, r being what Sync computed.
SyncReturns(r) ==
    /\ segments_' = r.roster
    /\ io_stats_' = r.io
    /\ last_sync' = [call |-> "Sync", sync_ops0 |-> io_stats_.sync_op_count]

\* One call of WAL::Sync by a caller.
WALSync ==
    /\ ~aborted
    /\ SyncReturns(Sync(segments_, io_stats_))
    /\ UNCHANGED << options_, next_segment_id_, opened, writes, all_fit,
                    last_write, accepted, start, dcheck_on, aborted, segVars,
                    bgVars, mtVars >>

NextWAL == WALWrite \/ WALSync

SpecWAL == InitWAL /\ [][NextWAL]_vars

(***************************************************************************)
(* WAL: the background sync task.                                          *)
(***************************************************************************)
\* Options::sync_interval_ms values: disabled, and 10 ms.
SyncIntervals == {0, 10}

\* Options of a WAL with 32 KiB segments.
BGOptions ==
    {o \in UNION {OptionsWith(ms) : ms \in SyncIntervals} :
        o.max_segment_sz = kMaxBlockSize}

BGDirs == {Dir({1}, << >>)}

\* State after WAL::WAL(options): the constructor starts no thread and gives
\* stop_sync_thread_ no value.
InitBG ==
    /\ Constructed(BGOptions, BGDirs)
    /\ NoSegment
    /\ sync_thread = "none"
    /\ stop_sync_thread_ \in BOOLEAN
    /\ last_wake = NoCall
    /\ NoCallers

\* One iteration of the loop of StartSyncThread that calls Sync() before it
\* tests stop_sync_thread_.
TaskIterationSyncFirst(stop) == [exit |-> stop, sync |-> TRUE]

\* One iteration of the loop of StartSyncThread after wait_for has returned,
\* stop being the value read from stop_sync_thread_: break, or call Sync().
TaskIteration(stop) ==
    IF stop THEN [exit |-> TRUE, sync |-> FALSE]
    ELSE [exit |-> FALSE, sync |-> TRUE]

\* A thread calls WAL::StartSyncThread(): it locks sync_mtx_ and waits on
\* sync_cv_ for sync_interval_ms.  No code of the WAL makes this call.
BGStart ==
    /\ ~aborted
    /\ sync_thread = "none"
    /\ sync_thread' = "wait"
    /\ UNCHANGED << stop_sync_thread_, last_wake, walVars, segVars, mtVars,
                    dcheck_on, aborted >>

\* The end of one iteration of the loop, it being what TaskIteration
\* computed.
WakeReturns(it) ==
    /\ sync_thread' = IF it.exit THEN "exited" ELSE "wait"
    /\ last_wake' = [call |-> "wake", stop |-> stop_sync_thread_,
                     sync |-> it.sync, exit |-> it.exit]
    /\ IF it.sync
       THEN SyncReturns(Sync(segments_, io_stats_))
       ELSE UNCHANGED << segments_, io_stats_, last_sync >>

\* wait_for returns (timeout, notification or spurious wakeup) and the
\* thread runs one iteration of the loop.
BGWake ==
    /\ ~aborted
    /\ sync_thread = "wait"
    /\ WakeReturns(TaskIteration(stop_sync_thread_))
    /\ UNCHANGED << stop_sync_thread_, options_, next_segment_id_, opened,
                    writes, all_fit, last_write, accepted, start, segVars,
                    mtVars, dcheck_on, aborted >>

NextBG == WALWrite \/ BGStart \/ BGWake

\* wait_for returns after sync_interval_ms at the latest, so a waiting
\* thread always runs its next iteration.
SpecBG == InitBG /\ [][NextBG]_vars /\ WF_vars(BGWake)

(***************************************************************************)
(* WAL: concurrent callers of Write, one step per statement.               *)
(***************************************************************************)
Threads == 1..MaxThreads

\* Record lengths written by the threads: a small record, one that fills a
\* block, one over the limit of a 32 KiB segment.
MTLens == {5, 32761, 65530}

MTOptions == {o \in OptionsSet : o.max_segment_sz = kMaxBlockSize}

MTDirs == {Dir({1}, << >>), Dir({9}, << >>)}

\* State after WAL::WAL(options), before any thread calls Write.
InitMT ==
    /\ Constructed(MTOptions, MTDirs)
    /\ NoSegment
    /\ NoSyncThread
    /\ wal_rw_mtx_ = {}
    /\ thr = [t \in Threads |->
                 [pc |-> "idle", n |-> 0, key |-> << >>, ec |-> "ok"]]
    /\ order = << >>

\* A lock that is granted whoever holds it.
CanLockAlways(holders) == TRUE

\* std::lock_guard<std::shared_mutex>: the exclusive lock is granted when
\* no thread holds the mutex.
CanLock(holders) == holders = {}

\* The variables no step of Write changes.
mtFixed == << options_, opened, writes, all_fit, last_write, accepted,
              last_sync, start, segVars, bgVars, dcheck_on >>

\* Thread t enters Write(data) with a record of MTLens and takes
\* wal_rw_mtx_.
MTLock(t) ==
    /\ ~aborted
    /\ thr[t].pc = "idle"
    /\ CanLock(wal_rw_mtx_)
    /\ wal_rw_mtx_' = wal_rw_mtx_ \cup {t}
    /\ order' = Append(order, t)
    /\ \E n \in MTLens : thr' = [thr EXCEPT ![t].pc = "check", ![t].n = n]
    /\ UNCHANGED << segments_, next_segment_id_, io_stats_, aborted, mtFixed >>

\* The end of the rollover test of thread t, ns being the roster, the next
\* id and the segment seg points to.
MTChecked(t, ns) ==
    /\ segments_' = ns.roster
    /\ next_segment_id_' = ns.next_id
    /\ thr' = [thr EXCEPT ![t].pc = "append", ![t].key = ns.key]
    /\ UNCHANGED wal_rw_mtx_

\* Thread t: the size check, GetActiveSegment and the rollover test.  A
\* record over the limit ends the call, which releases wal_rw_mtx_.
MTCheck(t) ==
    /\ ~aborted
    /\ thr[t].pc = "check"
    /\ DOMAIN segments_ # {}
    /\ IF TooLarge(options_, thr[t].n)
       THEN /\ thr' = [thr EXCEPT ![t].pc = "done", ![t].ec = "TooLargeData"]
            /\ wal_rw_mtx_' = wal_rw_mtx_ \ {t}
            /\ UNCHANGED << segments_, next_segment_id_ >>
       ELSE MTChecked(t,
               IF NeedsNewSegment(options_, thr[t].n,
                                  segments_[LastKey(segments_)].offset_)
               THEN NewSegment(segments_, next_segment_id_)
               ELSE [roster |-> segments_, next_id |-> next_segment_id_,
                     key |-> LastKey(segments_)])
    /\ UNCHANGED << io_stats_, order, aborted, mtFixed >>

\* The end of seg->Append(data) of thread t, r being what SegmentAppend
\* computed.
MTAppended(t, r) ==
    IF dcheck_on /\ ~r.pre
    THEN /\ aborted' = TRUE
         /\ UNCHANGED << segments_, thr >>
    ELSE /\ segments_' = [segments_ EXCEPT ![thr[t].key] = r.seg]
         /\ thr' = [thr EXCEPT ![t].pc = "stat"]
         /\ UNCHANGED aborted

\* Thread t: seg->Append(data).
MTAppend(t) ==
    /\ ~aborted
    /\ thr[t].pc = "append"
    /\ MTAppended(t, SegmentAppend(segments_[thr[t].key],
                                   Slice(t, thr[t].n), "ok"))
    /\ UNCHANGED << next_segment_id_, io_stats_, wal_rw_mtx_, order, mtFixed >>

\* Thread t: UpdateIOStat(data.size()).
MTStat(t) ==
    /\ ~aborted
    /\ thr[t].pc = "stat"
    /\ io_stats_' = UpdateIOStat(io_stats_, thr[t].n)
    /\ thr' = [thr EXCEPT ![t].pc = "sync"]
    /\ UNCHANGED << segments_, next_segment_id_, wal_rw_mtx_, order, aborted,
                    mtFixed >>

\* Thread t: if (NeedSync()) seg->Sync(); then the call returns, which
\* releases wal_rw_mtx_.
MTSync(t) ==
    /\ ~aborted
    /\ thr[t].pc = "sync"
    /\ segments_' = IF NeedSync(options_, io_stats_)
                    THEN [segments_ EXCEPT ![thr[t].key] = SegmentSync(@)]
                    ELSE segments_
    /\ thr' = [thr EXCEPT ![t].pc = "done"]
    /\ wal_rw_mtx_' = wal_rw_mtx_ \ {t}
    /\ UNCHANGED << next_segment_id_, io_stats_, order, aborted, mtFixed >>

NextMT ==
    \E t \in Threads :
       MTLock(t) \/ MTCheck(t) \/ MTAppend(t) \/ MTStat(t) \/ MTSync(t)

SpecMT == InitMT /\ [][NextMT]_vars

(***************************************************************************)
(* Claims about the WAL.                                                   *)
(***************************************************************************)
Wrote == last_write.call = "Write"

\* C7: when every Write so far had record length + header size within
\* max_segment_sz, the size of every segment of the roster is at most
\* max_segment_sz.  Stated for a WAL whose constructor found a segment
\* file, so that no Write runs on an empty roster.
C7_SegmentBounded ==
    (all_fit /\ opened # {}) =>
       \A b \in DOMAIN segments_ :
          segments_[b].offset_ <= options_.max_segment_sz

\* C8: a Write whose record length + header size exceeds max_segment_sz
\* ends with TooLargeData and leaves roster, segments, next id and io stats
\* as they were; a Write within the limit never ends with TooLargeData.
\* Stated for a Write on a non-empty roster.
C8_TooLargeData ==
    (Wrote /\ ~last_write.was_empty) =>
       IF last_write.n + kChunkHeaderSize > options_.max_segment_sz
       THEN last_write.ec = "TooLargeData" /\ last_write.unchanged
       ELSE last_write.ec # "TooLargeData"

\* C9: the segment a Write appended to has the numerically greatest id of
\* the roster (so no segment receives an append once a segment with a greater
\* id exists).  Stated for Writes within the size limit.
C9_ActiveIsGreatestId ==
    (Wrote /\ all_fit /\ last_write.target # << >>) =>
       \A b \in DOMAIN segments_ : IdOf(b) <= IdOf(last_write.target)

\* C10: a Write within the size limit on an empty roster succeeds and leaves
\* exactly one segment, named <next id + 1>.seg, that holds the record; a
\* successful Write creates exactly that segment when the roster was empty or
\* the active segment's size plus the required space exceeds max_segment_sz,
\* and creates no segment otherwise.  Stated for Writes within the size
\* limit.
C10_Rollover ==
    (Wrote /\ all_fit) =>
       /\ last_write.was_empty =>
             /\ ~aborted
             /\ last_write.ec = "ok"
             /\ DOMAIN segments_ = {last_write.new_name}
             /\ FirstHeaderPos(segments_[last_write.new_name].file,
                               last_write.rid) >= 0
       /\ (last_write.ec = "ok" /\ ~aborted) =>
             last_write.created
               = IF last_write.was_empty \/ last_write.over
                 THEN {last_write.new_name} ELSE {}

\* The counters of io_stats_ read 0 after construction, and the last Write
\* was within the size limit, on a non-empty roster.
PlainWrite ==
    /\ Wrote
    /\ all_fit
    /\ ~last_write.was_empty
    /\ start.io.cur_bytes_written = 0

\* C11: NeedSync() returns true exactly when sync_per_write is set, or
\* sync_bytes_threshold > 0 and the bytes written since the last sync are at
\* least sync_bytes_threshold; the number of writes does not matter.
\* Stated for the NeedSync() call of the last Write.
C11_NeedSyncByBytes ==
    (PlainWrite /\ last_write.asked) =>
       (last_write.need_sync
          <=> \/ options_.sync_per_write
              \/ /\ options_.sync_bytes_threshold > 0
                 /\ io_stats_.cur_bytes_written
                      >= options_.sync_bytes_threshold)

\* C12: after a Write whose NeedSync() returned true the segment written to
\* is synced, cur_bytes_written and cur_write_op_count are 0 and
\* sync_op_count is one more than before the Write.
C12_SyncResetsCounters ==
    (PlainWrite /\ last_write.need_sync) =>
       /\ segments_[last_write.target].synced
            = FileSize(segments_[last_write.target].file)
       /\ io_stats_.cur_bytes_written = 0
       /\ io_stats_.cur_write_op_count = 0
       /\ io_stats_.sync_op_count = last_write.sync_ops0 + 1

RECURSIVE SumOf(_)
SumOf(q) == IF q = << >> THEN 0 ELSE Head(q) + SumOf(Tail(q))

\* C13: on a newly constructed WAL total_write_op_count is the number of
\* Writes that succeeded and total_bytes_written the sum of the lengths of
\* their records.
C13_TotalsCountWrites ==
    /\ io_stats_.total_write_op_count = Len(accepted)
    /\ io_stats_.total_bytes_written = SumOf(accepted)

\* C14: when WAL::Sync() has just returned, every segment of the roster is
\* synced and sync_op_count is one more than before the call.
C14_SyncAllSegments ==
    (last_sync.call = "Sync") =>
       /\ \A b \in DOMAIN segments_ :
             segments_[b].synced = FileSize(segments_[b].file)
       /\ io_stats_.sync_op_count = last_sync.sync_ops0 + 1

\* Every byte of every segment of the roster has been synced.
AllSynced ==
    \A b \in DOMAIN segments_ :
       segments_[b].synced = FileSize(segments_[b].file)

\* C15: with sync_interval_ms > 0 a thread runs the sync task from
\* construction on, and whatever has been written is eventually synced even
\* if no further Write is made.
C15_BackgroundSync ==
    /\ (options_.sync_interval_ms > 0 => sync_thread = "wait")
    /\ [](options_.sync_interval_ms > 0 => <>AllSynced)

InWrite(t) == thr[t].pc \in {"check", "append", "stat", "sync"}

\* Roster, next id and io stats that a result of Write holds.
StateOf(w) == [roster |-> w.roster, next_id |-> w.next_id, io |-> w.io]

\* The state that the Writes of the threads of q, made one after the other
\* in this order, leave from state st.
RECURSIVE SerialWrites(_, _)
SerialWrites(st, q) ==
    IF q = << >> THEN st
    ELSE SerialWrites(StateOf(Write(options_, st.roster, st.next_id, st.io,
                                    dcheck_on, thr[Head(q)].n, Head(q), 0)),
                      Tail(q))

\* C17: at most one thread is inside the body of Write, and it holds
\* wal_rw_mtx_; whenever no thread is inside, roster, segment files, next id
\* and io stats are those that the same Writes leave when made one after the
\* other in the order the lock was taken, and the io stats count every
\* accepted Write.
C17_WritesSerialized ==
    /\ Cardinality({t \in Threads : InWrite(t)}) <= 1
    /\ {t \in Threads : InWrite(t)} = wal_rw_mtx_
    /\ (~aborted /\ \A t \in Threads : ~InWrite(t)) =>
          /\ [roster |-> segments_, next_id |-> next_segment_id_,
              io |-> io_stats_] = SerialWrites(start, order)
          /\ io_stats_.total_write_op_count
               = start.io.total_write_op_count
                   + Cardinality({t \in Threads : /\ thr[t].pc = "done"
                                                  /\ thr[t].ec = "ok"})

\* Two Writes have returned, the one of thread 2 first; both were accepted
\* and the second one rolled over to a new segment.
C17_Witness ==
    /\ order = << 2, 1 >>
    /\ thr[1].pc = "done" /\ thr[1].ec = "ok"
    /\ thr[2].pc = "done" /\ thr[2].ec = "ok"
    /\ thr[1].key # thr[2].key
    /\ next_segment_id_ = start.next_id + 1

\* The largest segment id among basenames (0 if there are none).
MaxIdOf(names) ==
    IF names = {} THEN 0
    ELSE CHOOSE m \in {IdOf(b) : b \in names} :
            \A b \in names : IdOf(b) <= m

\* C23: after construction next_segment_id_ is the largest numeric prefix
\* of the basenames found (0 if none); a Write that rolls over adds exactly
\* one segment to the roster, whose id is greater than every other id.
C23_NextIdInit ==
    /\ start.next_id = MaxIdOf(opened)
    /\ (Wrote /\ ~aborted /\ next_segment_id_ = IdOf(last_write.new_name)) =>
          /\ last_write.created = {last_write.new_name}
          /\ \A b \in DOMAIN segments_ \ last_write.created :
                IdOf(b) < IdOf(last_write.new_name)

\* The chunk type stored at file position off (-1: no chunk header there).
TypeAt(file, off) ==
    IF HeaderAt(file, off) = 0 THEN -1 ELSE file[HeaderAt(file, off)].type

\* C24: ReadAt reports Corruption and returns no record bytes when the
\* chunk it starts at, once the offset is aligned, is a kMiddle or kLast
\* chunk (a malformed chunk-type chain).  No reachable file holds a chunk
\* whose stored crc32 differs from the one Encode computed.
C24_CorruptionReported ==
    (/\ last_read.call = "ReadAtOffset"
     /\ last_read.off >= 0
     /\ TypeAt(seg.file, GetAlignedReadOffset(last_read.off))
          \in {kMiddle, kLast})
      => /\ last_read.status = "Corruption"
         /\ last_read.data = << >>

=============================================================================
